---- MODULE Spec2Model ----
(***************************************************************************)
(* State-machine model of the authenticated chat backend: the document     *)
(* store adapter (database.py), the auth operations register_user,         *)
(* authenticate_user, get_current_user and create_access_token (auth.py),  *)
(* the chat_stream generator (chat.py) with its moderation gate            *)
(* (moderation.py), and the route /chat/start (main.py).                   *)
(*                                                                         *)
(* Every call (one invocation of chat_stream, of an auth operation or of   *)
(* the route) is a coroutine.                                              *)
(* pc[c] is the await or yield at which call c is suspended;               *)
(* one action is the code that runs from one suspension point to the next, *)
(* the awaited store operation taking effect atomically in it.             *)
(* The external capabilities are the environment: the safety classifier    *)
(* answers with a list of block reasons or raises, the generation stream   *)
(* delivers one chunk, completes or raises, and the consumer of the        *)
(* generator either resumes it after a yield or closes it.                 *)
(* Store operations are taken to succeed, and the generation call itself   *)
(* returns its lazy stream: a provider failure surfaces when a chunk is    *)
(* pulled from the stream.                                                 *)
(* Time is counted in whole minutes.  A token is the record of its claims  *)
(* and of the key that signed it; the rate limiter of the routes is not    *)
(* modelled.                                                               *)
(***************************************************************************)
EXTENDS Integers, Sequences, FiniteSets, TLC

(***************************************************************************)
(* Bounds of the model                                                     *)
(***************************************************************************)
\* number of calls (chat_stream / register_user invocations) that can be in flight
NCalls == 2
\* number of requests that arrive in a behaviour
MaxRequests == 2
\* number of chunks the generation streams deliver in a behaviour
MaxChunks == 3

Call == 1..NCalls

\* authenticated identities handed to chat_stream (start_chat_stream passes the email)
Emails == {"a@x.com", "b@x.com"}
\* request texts of ChatRequest.message
Messages == {"hi", "yo"}
\* chunk.text values of the generation stream; "" is a chunk without text
ChunkText == {"", "Hel", "lo"}
\* passwords of RegisterRequest and salts drawn by bcrypt.gensalt()
Passwords == {"longenough1"}
Salts == {"s1", "s2"}
\* block reasons reported by the classifier's prompt feedback
BlockReasons == {<<>>, <<"SAFETY">>}
\* str(e) of an exception raised by the generation stream
GenErrors == {"boom"}

(***************************************************************************)
(* Values                                                                  *)
(***************************************************************************)
\* Python None / a missing document
None == [none |-> TRUE]
\* BSON values of the _id field: an ObjectId generated by the store, or a string
ObjectId(n) == [type |-> "objectId", v |-> ToString(n)]
BsonString(s) == [type |-> "string", v |-> s]
\* BSON equality: values of different types are never equal
BsonEq(a, b) == a.type = b.type /\ a.v = b.v
\* str(ObjectId)
Str(id) == id.v

VARIABLES
    users,            \* db.users, documents in insertion (natural) order
    sessions,         \* db.sessions
    messages,         \* db.messages
    pc,               \* pc[c]: where call c is suspended
    op,               \* op[c]: the operation call c is an invocation of, "none" before
    user_id,          \* chat_stream argument user_id
    chat_req,         \* chat_stream argument chat_req
    safety,           \* result of check_content_safety, None before it returns
    content_parts,    \* the context built by chat_stream
    generated,        \* generated[c]: the contexts handed to generate_content by c
    delivered,        \* chunk texts the generation stream has delivered to c
    stream,           \* state of c's generation stream: "none", "open", "completed", "raised"
    assistant_parts,  \* chat_stream local assistant_parts
    events,           \* the frames chat_stream has yielded, in order
    inserted,         \* _ids of the message documents c inserted (InsertOneResult.inserted_id)
    reg_req,          \* register_user argument
    hashed_pwd,       \* register_user local
    result,           \* value returned or exception raised by the call
    before,           \* before[c]: the store as it was when call c began
    requests,         \* number of requests that have arrived
    chunks,           \* number of chunks the generation streams have delivered
    login_req,        \* authenticate_user argument
    token,            \* get_current_user argument: the bearer credential presented
    payload,          \* get_current_user local: what jwt.decode returned or raised
    response,         \* the response object built by start_chat_stream, None before
    now,              \* datetime.utcnow(), in minutes
    ticks,            \* number of times the clock has advanced
    issued,           \* the calls of create_access_token made so far
    auth_requests     \* number of login, identification and token requests that have arrived

storeVars == <<users, sessions, messages>>
chatVars == <<user_id, chat_req, safety, content_parts, generated, delivered, stream,
              assistant_parts, events, inserted>>
regVars == <<reg_req, hashed_pwd, result>>
authVars == <<login_req, token, payload, response, now, ticks, issued, auth_requests>>
vars == <<users, sessions, messages, pc, op, user_id, chat_req, safety, content_parts,
          generated, delivered, stream, assistant_parts, events, inserted, reg_req,
          hashed_pwd, result, before, requests, chunks, login_req, token, payload, response,
          now, ticks, issued, auth_requests>>

(***************************************************************************)
(* database.py                                                             *)
(***************************************************************************)
\* insert_one: the store adds a fresh ObjectId as _id when the document has none
InsertOne(coll, doc) ==
    Append(coll, [k \in DOMAIN doc \cup {"_id"} |->
                    IF k = "_id" THEN ObjectId(Len(coll) + 1) ELSE doc[k]])

\* find_one: of the documents at the matching positions the first in natural
\* order, or None
FindOne(coll, matching) ==
    IF matching = {} THEN None
    ELSE coll[CHOOSE i \in matching : \A j \in matching : i <= j]

\* create_user over a collection with a unique index on email: a second
\* document of the same email is not stored
create_user_unique_email(user_data) ==
    IF \E i \in 1..Len(users) : users[i].email = user_data.email
    THEN users
    ELSE InsertOne(users, user_data)

create_user(user_data) == InsertOne(users, user_data)

get_user(email) ==
    FindOne(users, {i \in 1..Len(users) : users[i].email = email})

create_session(session_data) == InsertOne(sessions, session_data)

get_session(sid) ==
    FindOne(sessions, {i \in 1..Len(sessions) : BsonEq(sessions[i]._id, BsonString(sid))})

save_message(sid, message) ==
    InsertOne(messages, [session_id |-> sid, message |-> message])

\* the three collections
Store == [users |-> users, sessions |-> sessions, messages |-> messages]

\* the sort key of sort("timestamp", 1): a missing field sorts as null, before any value
SortKey(doc) == IF "timestamp" \in DOMAIN doc THEN doc.timestamp ELSE 0

RECURSIVE Perms(_)
Perms(S) ==
    IF S = {} THEN {<<>>}
    ELSE UNION {{<<x>> \o p : p \in Perms(S \ {x})} : x \in S}

\* sort(key, 1): documents with equal keys may come back in any order, so the
\* possible results are all the orderings that are ascending in the key
SortAscending(docs) ==
    {[i \in 1..Len(docs) |-> docs[p[i]]] : p \in
        {q \in Perms(1..Len(docs)) :
            \A i \in 1..(Len(docs) - 1) : SortKey(docs[q[i]]) <= SortKey(docs[q[i + 1]])}}

\* the lists get_messages may return
get_messages(sid) ==
    SortAscending(SelectSeq(messages, LAMBDA d : d.session_id = sid))

(***************************************************************************)
(* moderation.py                                                           *)
(***************************************************************************)
\* what the classifier's response carries as prompt_feedback
PromptFeedback == {None} \cup {[block_reason |-> r] : r \in BlockReasons}

check_content_safety(prompt_feedback) ==
    LET blocked == IF prompt_feedback = None THEN <<>>
                   ELSE SelectSeq(prompt_feedback.block_reason, LAMBDA r : r # "")
    IN  IF prompt_feedback # None /\ Len(blocked) > 0
        THEN [flagged |-> TRUE, categories |-> blocked]
        ELSE [flagged |-> FALSE, categories |-> <<>>]

(***************************************************************************)
(* chat.py: chat_stream                                                    *)
(***************************************************************************)
session_id == "default_session"

\* the frame of a coroutine slot holds no request before its first call
NoRequest == [email |-> "", password |-> ""]

\* one frame of the event stream, the text  data: {"<field>": <value>}<end>
Frame(field, value, end) == [field |-> field, value |-> value, end |-> end]
\* line 30 ends the frame with the four characters \n\n (the backslashes are doubled)
BlockedFrame == Frame("error", "blocked for safety reasons", "\\n\\n")
\* lines 67, 69 and 75 end the frame with two newlines; the text is interpolated as it is
ErrorFrame(e) == Frame("error", "generation failed: " \o e, "\n\n")
DeltaFrame(text) == Frame("delta", text, "\n\n")
DoneFrame == Frame("done", "true", "\n\n")

\* ''.join(parts)
RECURSIVE Join(_)
Join(parts) == IF parts = <<>> THEN "" ELSE Head(parts) \o Join(Tail(parts))

\* lines 41-47: the history documents that carry role and content, then the new user turn
BuildContentParts(history, message) ==
    LET kept == SelectSeq(history,
                          LAMBDA msg : "role" \in DOMAIN msg /\ "content" \in DOMAIN msg)
    IN  [i \in 1..Len(kept) |->
            [role |-> kept[i].role, parts |-> <<[text |-> kept[i].content]>>]]
        \o <<[role |-> "user", parts |-> <<[text |-> message]>>]>>

YieldPoints == {"yield_blocked", "yield_delta", "yield_error", "yield_done"}
Finished == {"returned", "raised", "closed"}

\* a request is served by the first coroutine slot that is free
Free(c) == pc[c] \in Finished \cup {"idle"}
NextCall(c) == requests < MaxRequests /\ Free(c) /\ \A d \in 1..(c - 1) : ~Free(d)

\* a call of chat_stream(user_id, chat_req): runs to the await of check_content_safety
BeginChat(c, u, m) ==
    /\ NextCall(c)
    /\ requests' = requests + 1
    /\ op' = [op EXCEPT ![c] = "chat"]
    /\ user_id' = [user_id EXCEPT ![c] = u]
    /\ chat_req' = [chat_req EXCEPT ![c] = [message |-> m]]
    /\ pc' = [pc EXCEPT ![c] = "check_content_safety"]
    /\ safety' = [safety EXCEPT ![c] = None]
    /\ content_parts' = [content_parts EXCEPT ![c] = <<>>]
    /\ generated' = [generated EXCEPT ![c] = <<>>]
    /\ delivered' = [delivered EXCEPT ![c] = <<>>]
    /\ stream' = [stream EXCEPT ![c] = "none"]
    /\ assistant_parts' = [assistant_parts EXCEPT ![c] = <<>>]
    /\ events' = [events EXCEPT ![c] = <<>>]
    /\ inserted' = [inserted EXCEPT ![c] = <<>>]
    /\ reg_req' = [reg_req EXCEPT ![c] = NoRequest]
    /\ hashed_pwd' = [hashed_pwd EXCEPT ![c] = None]
    /\ result' = [result EXCEPT ![c] = None]
    /\ before' = [before EXCEPT ![c] = Store]
    /\ login_req' = [login_req EXCEPT ![c] = NoRequest]
    /\ token' = [token EXCEPT ![c] = None]
    /\ payload' = [payload EXCEPT ![c] = None]
    /\ response' = [response EXCEPT ![c] = None]
    /\ UNCHANGED <<storeVars, chunks, now, ticks, issued, auth_requests>>

\* lines 28-31: the gate answers; a flagged message yields the error frame
ModerationReturns(c) ==
    /\ pc[c] = "check_content_safety"
    /\ \E pf \in PromptFeedback :
        LET s == check_content_safety(pf) IN
        /\ safety' = [safety EXCEPT ![c] = s]
        /\ IF s.flagged
           THEN /\ events' = [events EXCEPT ![c] = Append(@, BlockedFrame)]
                /\ pc' = [pc EXCEPT ![c] = "yield_blocked"]
           ELSE /\ pc' = [pc EXCEPT ![c] = "get_session"]
                /\ UNCHANGED events
    /\ UNCHANGED <<storeVars, op, before, authVars, user_id, chat_req, content_parts, generated, delivered,
                   stream, assistant_parts, inserted, regVars, requests, chunks>>

\* ModerationRaises with the session step of lines 35-37 taken before the gate:
\* the session record is in the store when the classifier raises
ModerationRaisesAfterSession(c) ==
    /\ pc[c] = "check_content_safety"
    /\ sessions' = create_session([session_id |-> session_id, user_id |-> user_id[c]])
    /\ pc' = [pc EXCEPT ![c] = "raised"]
    /\ UNCHANGED <<users, messages, op, before, authVars, chatVars, regVars, requests, chunks>>

\* line 28: the classifier raises; nothing in chat_stream catches it
ModerationRaises(c) ==
    /\ pc[c] = "check_content_safety"
    /\ pc' = [pc EXCEPT ![c] = "raised"]
    /\ UNCHANGED <<storeVars, op, before, authVars, chatVars, regVars, requests, chunks>>

\* ResumeBlocked without the return of line 31: the pipeline goes on to the session step
ResumeBlockedFallsThrough(c) ==
    /\ pc[c] = "yield_blocked"
    /\ pc' = [pc EXCEPT ![c] = "get_session"]
    /\ UNCHANGED <<storeVars, op, before, authVars, chatVars, regVars, requests, chunks>>

\* lines 30-31: resumed after the blocked frame, the generator returns
ResumeBlocked(c) ==
    /\ pc[c] = "yield_blocked"
    /\ pc' = [pc EXCEPT ![c] = "returned"]
    /\ UNCHANGED <<storeVars, op, before, authVars, chatVars, regVars, requests, chunks>>

\* lines 35-36
GetSession(c) ==
    /\ pc[c] = "get_session"
    /\ pc' = [pc EXCEPT ![c] = IF get_session(session_id) = None
                                THEN "create_session" ELSE "get_messages"]
    /\ UNCHANGED <<storeVars, op, before, authVars, chatVars, regVars, requests, chunks>>

\* line 37
CreateSession(c) ==
    /\ pc[c] = "create_session"
    /\ sessions' = create_session([session_id |-> session_id, user_id |-> user_id[c]])
    /\ pc' = [pc EXCEPT ![c] = "get_messages"]
    /\ UNCHANGED <<users, messages, op, before, authVars, chatVars, regVars, requests, chunks>>

\* lines 40-47
GetMessages(c) ==
    /\ pc[c] = "get_messages"
    /\ \E history \in get_messages(session_id) :
        content_parts' = [content_parts EXCEPT
                            ![c] = BuildContentParts(history, chat_req[c].message)]
    /\ pc' = [pc EXCEPT ![c] = "save_user_message"]
    /\ UNCHANGED <<storeVars, op, before, authVars, user_id, chat_req, safety, generated, delivered, stream,
                   assistant_parts, events, inserted, regVars, requests, chunks>>

\* SaveUserMessage with the write of line 50 left for after the generation call
SaveUserMessageLate(c) ==
    /\ pc[c] = "save_user_message"
    /\ pc' = [pc EXCEPT ![c] = "generate_content"]
    /\ UNCHANGED <<storeVars, op, before, authVars, chatVars, regVars, requests, chunks>>

\* line 50
SaveUserMessage(c) ==
    /\ pc[c] = "save_user_message"
    /\ messages' = save_message(session_id,
                                [role |-> "user", content |-> chat_req[c].message])
    /\ inserted' = [inserted EXCEPT ![c] = Append(@, ObjectId(Len(messages) + 1))]
    /\ pc' = [pc EXCEPT ![c] = "generate_content"]
    /\ UNCHANGED <<users, sessions, op, before, authVars, user_id, chat_req, safety, content_parts, generated,
                   delivered, stream, assistant_parts, events, regVars, requests, chunks>>

\* lines 53-62: the generation capability is invoked with content_parts; the
\* response is a lazy stream whose failures surface when a chunk is pulled
GenerateContent(c) ==
    /\ pc[c] = "generate_content"
    /\ generated' = [generated EXCEPT ![c] = Append(@, content_parts[c])]
    /\ stream' = [stream EXCEPT ![c] = "open"]
    /\ pc' = [pc EXCEPT ![c] = "next_chunk"]
    /\ UNCHANGED <<storeVars, op, before, authVars, user_id, chat_req, safety, content_parts, delivered,
                   assistant_parts, events, inserted, regVars, requests, chunks>>

\* NextChunk without the test of line 65: a chunk without text is kept and yielded too
NextChunkUnfiltered(c) ==
    /\ pc[c] = "next_chunk"
    /\ chunks < MaxChunks
    /\ chunks' = chunks + 1
    /\ \E text \in ChunkText :
        /\ delivered' = [delivered EXCEPT ![c] = Append(@, text)]
        /\ assistant_parts' = [assistant_parts EXCEPT ![c] = Append(@, text)]
        /\ events' = [events EXCEPT ![c] = Append(@, DeltaFrame(text))]
        /\ pc' = [pc EXCEPT ![c] = "yield_delta"]
    /\ UNCHANGED <<storeVars, op, before, authVars, user_id, chat_req, safety, content_parts,
                   generated, stream, inserted, regVars, requests>>

\* lines 64-67: the stream delivers a chunk; a chunk with text is kept and yielded
NextChunk(c) ==
    /\ pc[c] = "next_chunk"
    /\ chunks < MaxChunks
    /\ chunks' = chunks + 1
    /\ \E text \in ChunkText :
        /\ delivered' = [delivered EXCEPT ![c] = Append(@, text)]
        /\ IF text # ""
           THEN /\ assistant_parts' = [assistant_parts EXCEPT ![c] = Append(@, text)]
                /\ events' = [events EXCEPT ![c] = Append(@, DeltaFrame(text))]
                /\ pc' = [pc EXCEPT ![c] = "yield_delta"]
           ELSE UNCHANGED <<assistant_parts, events, pc>>
    /\ UNCHANGED <<storeVars, op, before, authVars, user_id, chat_req, safety, content_parts, generated,
                   stream, inserted, regVars, requests>>

\* line 67: resumed after a delta frame, the loop pulls the next chunk
ResumeDelta(c) ==
    /\ pc[c] = "yield_delta"
    /\ pc' = [pc EXCEPT ![c] = "next_chunk"]
    /\ UNCHANGED <<storeVars, op, before, authVars, chatVars, regVars, requests, chunks>>

\* StreamRaises that persists the parts received so far before yielding the error frame
StreamRaisesSavesPartial(c) ==
    /\ pc[c] = "next_chunk"
    /\ \E e \in GenErrors :
        events' = [events EXCEPT ![c] = Append(@, ErrorFrame(e))]
    /\ stream' = [stream EXCEPT ![c] = "raised"]
    /\ IF assistant_parts[c] # <<>>
       THEN /\ messages' = save_message(session_id,
                                        [role |-> "assistant",
                                         content |-> Join(assistant_parts[c])])
            /\ inserted' = [inserted EXCEPT ![c] = Append(@, ObjectId(Len(messages) + 1))]
       ELSE UNCHANGED <<messages, inserted>>
    /\ pc' = [pc EXCEPT ![c] = "yield_error"]
    /\ UNCHANGED <<users, sessions, op, before, authVars, user_id, chat_req, safety, content_parts,
                   generated, delivered, assistant_parts, regVars, requests, chunks>>

\* lines 68-69: the stream raises; the error frame is yielded
StreamRaises(c) ==
    /\ pc[c] = "next_chunk"
    /\ \E e \in GenErrors :
        events' = [events EXCEPT ![c] = Append(@, ErrorFrame(e))]
    /\ stream' = [stream EXCEPT ![c] = "raised"]
    /\ pc' = [pc EXCEPT ![c] = "yield_error"]
    /\ UNCHANGED <<storeVars, op, before, authVars, user_id, chat_req, safety, content_parts, generated,
                   delivered, assistant_parts, inserted, regVars, requests, chunks>>

\* ResumeError without the return of line 70: the code falls through to lines 72-75
ResumeErrorFallsThrough(c) ==
    /\ pc[c] = "yield_error"
    /\ IF assistant_parts[c] # <<>>
       THEN /\ pc' = [pc EXCEPT ![c] = "save_assistant_message"]
            /\ UNCHANGED events
       ELSE /\ events' = [events EXCEPT ![c] = Append(@, DoneFrame)]
            /\ pc' = [pc EXCEPT ![c] = "yield_done"]
    /\ UNCHANGED <<storeVars, op, before, authVars, user_id, chat_req, safety, content_parts,
                   generated, delivered, stream, assistant_parts, inserted, regVars,
                   requests, chunks>>

\* line 70: resumed after the error frame, the generator returns
ResumeError(c) ==
    /\ pc[c] = "yield_error"
    /\ pc' = [pc EXCEPT ![c] = "returned"]
    /\ UNCHANGED <<storeVars, op, before, authVars, chatVars, regVars, requests, chunks>>

\* StreamCompletes without the test of line 73: the assistant message is saved
\* whether or not a part was kept
StreamCompletesAlwaysSaves(c) ==
    /\ pc[c] = "next_chunk"
    /\ stream' = [stream EXCEPT ![c] = "completed"]
    /\ pc' = [pc EXCEPT ![c] = "save_assistant_message"]
    /\ UNCHANGED <<storeVars, op, before, authVars, user_id, chat_req, safety, content_parts, generated,
                   delivered, assistant_parts, events, inserted, regVars, requests, chunks>>

\* lines 64, 72, 75: the stream is exhausted; without parts the done frame follows at once
StreamCompletes(c) ==
    /\ pc[c] = "next_chunk"
    /\ stream' = [stream EXCEPT ![c] = "completed"]
    /\ IF assistant_parts[c] # <<>>
       THEN /\ pc' = [pc EXCEPT ![c] = "save_assistant_message"]
            /\ UNCHANGED events
       ELSE /\ events' = [events EXCEPT ![c] = Append(@, DoneFrame)]
            /\ pc' = [pc EXCEPT ![c] = "yield_done"]
    /\ UNCHANGED <<storeVars, op, before, authVars, user_id, chat_req, safety, content_parts, generated,
                   delivered, assistant_parts, inserted, regVars, requests, chunks>>

\* SaveAssistantMessage as an update: the turn's document is rewritten with the
\* assistant's answer, nothing is inserted
SaveAssistantMessageRewrites(c) ==
    /\ pc[c] = "save_assistant_message"
    /\ messages' = [messages EXCEPT
                      ![Len(messages)].message = [role |-> "assistant",
                                                  content |-> Join(assistant_parts[c])]]
    /\ events' = [events EXCEPT ![c] = Append(@, DoneFrame)]
    /\ pc' = [pc EXCEPT ![c] = "yield_done"]
    /\ UNCHANGED <<users, sessions, op, before, authVars, user_id, chat_req, safety, content_parts, generated,
                   delivered, stream, assistant_parts, inserted, regVars, requests, chunks>>

\* lines 73-75
SaveAssistantMessage(c) ==
    /\ pc[c] = "save_assistant_message"
    /\ messages' = save_message(session_id,
                                [role |-> "assistant",
                                 content |-> Join(assistant_parts[c])])
    /\ inserted' = [inserted EXCEPT ![c] = Append(@, ObjectId(Len(messages) + 1))]
    /\ events' = [events EXCEPT ![c] = Append(@, DoneFrame)]
    /\ pc' = [pc EXCEPT ![c] = "yield_done"]
    /\ UNCHANGED <<users, sessions, op, before, authVars, user_id, chat_req, safety, content_parts, generated,
                   delivered, stream, assistant_parts, regVars, requests, chunks>>

\* line 75: resumed after the done frame, the generator is exhausted
ResumeDone(c) ==
    /\ pc[c] = "yield_done"
    /\ pc' = [pc EXCEPT ![c] = "returned"]
    /\ UNCHANGED <<storeVars, op, before, authVars, chatVars, regVars, requests, chunks>>

\* the consumer closes the generator at a yield: GeneratorExit is raised there,
\* which the except Exception clause of line 68 does not catch
Close(c) ==
    /\ pc[c] \in YieldPoints
    /\ pc' = [pc EXCEPT ![c] = "closed"]
    /\ UNCHANGED <<storeVars, op, before, authVars, chatVars, regVars, requests, chunks>>

(***************************************************************************)
(* auth.py: register_user                                                  *)
(***************************************************************************)
\* bcrypt.hashpw(password, salt): the digest carries its salt
hash_password(password, salt) == [salt |-> salt, digest |-> <<salt, password>>]

\* bcrypt.checkpw: hashes the plain password with the salt of the stored hash
verify_password(plain_password, hashed_password) ==
    hash_password(plain_password, hashed_password.salt) = hashed_password

HTTPException(status_code, detail) == [status_code |-> status_code, detail |-> detail]

\* a call of register_user(reg_req): runs to the await of get_user
BeginRegister(c, email, password) ==
    /\ NextCall(c)
    /\ requests' = requests + 1
    /\ op' = [op EXCEPT ![c] = "register"]
    /\ reg_req' = [reg_req EXCEPT ![c] = [email |-> email, password |-> password]]
    /\ pc' = [pc EXCEPT ![c] = "get_user"]
    /\ hashed_pwd' = [hashed_pwd EXCEPT ![c] = None]
    /\ result' = [result EXCEPT ![c] = None]
    /\ user_id' = [user_id EXCEPT ![c] = ""]
    /\ chat_req' = [chat_req EXCEPT ![c] = [message |-> ""]]
    /\ safety' = [safety EXCEPT ![c] = None]
    /\ content_parts' = [content_parts EXCEPT ![c] = <<>>]
    /\ generated' = [generated EXCEPT ![c] = <<>>]
    /\ delivered' = [delivered EXCEPT ![c] = <<>>]
    /\ stream' = [stream EXCEPT ![c] = "none"]
    /\ assistant_parts' = [assistant_parts EXCEPT ![c] = <<>>]
    /\ events' = [events EXCEPT ![c] = <<>>]
    /\ inserted' = [inserted EXCEPT ![c] = <<>>]
    /\ before' = [before EXCEPT ![c] = Store]
    /\ login_req' = [login_req EXCEPT ![c] = NoRequest]
    /\ token' = [token EXCEPT ![c] = None]
    /\ payload' = [payload EXCEPT ![c] = None]
    /\ response' = [response EXCEPT ![c] = None]
    /\ UNCHANGED <<storeVars, chunks, now, ticks, issued, auth_requests>>

\* RegisterGetUser without the existence test of lines 59-60
RegisterGetUserUnchecked(c) ==
    /\ pc[c] = "get_user"
    /\ \E salt \in Salts :
        hashed_pwd' = [hashed_pwd EXCEPT ![c] = hash_password(reg_req[c].password, salt)]
    /\ pc' = [pc EXCEPT ![c] = "create_user"]
    /\ UNCHANGED <<storeVars, op, before, authVars, chatVars, reg_req, result, requests, chunks>>

\* lines 58-62: an existing user raises 400, otherwise the password is hashed
RegisterGetUser(c) ==
    /\ pc[c] = "get_user"
    /\ IF get_user(reg_req[c].email) # None
       THEN /\ result' = [result EXCEPT ![c] = HTTPException(400, "email already registered")]
            /\ pc' = [pc EXCEPT ![c] = "raised"]
            /\ UNCHANGED hashed_pwd
       ELSE /\ \E salt \in Salts :
                hashed_pwd' = [hashed_pwd EXCEPT
                                 ![c] = hash_password(reg_req[c].password, salt)]
            /\ pc' = [pc EXCEPT ![c] = "create_user"]
            /\ UNCHANGED result
    /\ UNCHANGED <<storeVars, op, before, authVars, chatVars, reg_req, requests, chunks>>

\* lines 63-64
RegisterCreateUser(c) ==
    /\ pc[c] = "create_user"
    /\ users' = create_user([email |-> reg_req[c].email, password_hash |-> hashed_pwd[c]])
    /\ result' = [result EXCEPT ![c] = [user_id |-> Str(ObjectId(Len(users) + 1)),
                                        email |-> reg_req[c].email]]
    /\ pc' = [pc EXCEPT ![c] = "returned"]
    /\ UNCHANGED <<sessions, messages, op, before, authVars, chatVars, reg_req, hashed_pwd, requests, chunks>>

(***************************************************************************)
(* auth.py: tokens                                                         *)
(***************************************************************************)
\* number of login, identification and token requests that arrive in a behaviour
MaxAuthRequests == 2
\* number of times the clock advances in a behaviour
MaxTicks == 2

ACCESS_TOKEN_EXPIRE_MINUTES == 30
SECRET_KEY == "jwt_secret"

\* minutes by which the clock advances in one step
TimeSteps == {1, ACCESS_TOKEN_EXPIRE_MINUTES}
\* passwords of LoginRequest: the registered ones and one nobody registered with
LoginPasswords == Passwords \cup {"guessed99"}

\* timedelta(minutes=n); the Optional argument left out is None
timedelta(minutes) == [minutes |-> minutes]
\* the values handed to create_access_token as expires_delta
ExpiresDeltas == {None, timedelta(0), timedelta(1)}
\* bool(expires_delta): None is false and so is a timedelta of zero
Truthy(expires_delta) == expires_delta # None /\ expires_delta.minutes # 0

\* jwt.encode: the claims signed with the key
jwt_encode(claims, key) == [claims |-> claims, key |-> key]
JWTError == [error |-> "JWTError"]
\* jwt_decode without the test of the exp claim
jwt_decode_ignoring_exp(tok, key) ==
    IF "claims" \notin DOMAIN tok \/ tok.key # key THEN JWTError ELSE tok.claims

\* jwt.decode: the claims of a well-formed token signed with the key and not past
\* its exp claim, JWTError for any other token
jwt_decode(tok, key) ==
    IF "claims" \notin DOMAIN tok \/ tok.key # key THEN JWTError
    ELSE IF "exp" \in DOMAIN tok.claims /\ tok.claims.exp < now THEN JWTError
    ELSE tok.claims

\* lines 43-51
create_access_token(data, expires_delta) ==
    LET expire == IF Truthy(expires_delta)
                  THEN now + expires_delta.minutes
                  ELSE now + ACCESS_TOKEN_EXPIRE_MINUTES
        to_encode == [k \in DOMAIN data \cup {"exp"} |->
                        IF k = "exp" THEN expire ELSE data[k]]
    IN  jwt_encode(to_encode, SECRET_KEY)

\* the record of one call of create_access_token
Issue(data, expires_delta) ==
    [token |-> create_access_token(data, expires_delta), at |-> now,
     data |-> data, expires_delta |-> expires_delta]

\* the data handed to create_access_token: a subject, or no subject
TokenData == {[sub |-> e] : e \in Emails} \cup {[iss |-> "backend"]}

\* credentials not made by this service: a string that is no token, and tokens
\* signed with another key
ForgedTokens ==
    {[garbage |-> "not-a-jwt"]} \cup
    {jwt_encode([sub |-> e, exp |-> now + ACCESS_TOKEN_EXPIRE_MINUTES], "other_key") :
        e \in Emails}
\* tokens signed with the service's key for any subject or for none
ServiceTokens == {create_access_token(data, None) : data \in TokenData}
\* the credentials a client can present
BearerTokens == {i.token : i \in issued} \cup ForgedTokens \cup ServiceTokens

AuthNextCall(c) ==
    auth_requests < MaxAuthRequests /\ Free(c) /\ \A d \in 1..(c - 1) : ~Free(d)

\* a fresh frame for call c of operation o, suspended at label
NewFrame(c, o, label) ==
    /\ op' = [op EXCEPT ![c] = o]
    /\ pc' = [pc EXCEPT ![c] = label]
    /\ user_id' = [user_id EXCEPT ![c] = ""]
    /\ safety' = [safety EXCEPT ![c] = None]
    /\ content_parts' = [content_parts EXCEPT ![c] = <<>>]
    /\ generated' = [generated EXCEPT ![c] = <<>>]
    /\ delivered' = [delivered EXCEPT ![c] = <<>>]
    /\ stream' = [stream EXCEPT ![c] = "none"]
    /\ assistant_parts' = [assistant_parts EXCEPT ![c] = <<>>]
    /\ events' = [events EXCEPT ![c] = <<>>]
    /\ inserted' = [inserted EXCEPT ![c] = <<>>]
    /\ reg_req' = [reg_req EXCEPT ![c] = NoRequest]
    /\ hashed_pwd' = [hashed_pwd EXCEPT ![c] = None]
    /\ before' = [before EXCEPT ![c] = Store]

\* the clock advances
Tick ==
    /\ ticks < MaxTicks
    /\ ticks' = ticks + 1
    /\ \E d \in TimeSteps : now' = now + d
    /\ UNCHANGED <<storeVars, pc, op, before, chatVars, regVars, requests, chunks,
                   login_req, token, payload, response, issued, auth_requests>>

\* a call of create_access_token(data, expires_delta); it has no await.  A call
\* that repeats a recorded one (same arguments at the same time) makes the same
\* token again and is left out.
CreateAccessToken(data, expires_delta) ==
    /\ auth_requests < MaxAuthRequests
    /\ Issue(data, expires_delta) \notin issued
    /\ auth_requests' = auth_requests + 1
    /\ issued' = issued \cup {Issue(data, expires_delta)}
    /\ UNCHANGED <<storeVars, pc, op, before, chatVars, regVars, requests, chunks,
                   login_req, token, payload, response, now, ticks>>

(***************************************************************************)
(* auth.py: authenticate_user                                              *)
(***************************************************************************)
\* a call of authenticate_user(login_req): runs to the await of get_user
BeginLogin(c, email, password) ==
    /\ AuthNextCall(c)
    /\ auth_requests' = auth_requests + 1
    /\ NewFrame(c, "authenticate_user", "login_get_user")
    /\ login_req' = [login_req EXCEPT ![c] = [email |-> email, password |-> password]]
    /\ chat_req' = [chat_req EXCEPT ![c] = [message |-> ""]]
    /\ token' = [token EXCEPT ![c] = None]
    /\ payload' = [payload EXCEPT ![c] = None]
    /\ response' = [response EXCEPT ![c] = None]
    /\ result' = [result EXCEPT ![c] = None]
    /\ UNCHANGED <<storeVars, requests, chunks, now, ticks, issued>>

\* LoginGetUser with an error of its own for an email that has no user
LoginGetUserTellsCause(c) ==
    /\ pc[c] = "login_get_user"
    /\ LET user == get_user(login_req[c].email) IN
        IF user = None
        THEN /\ result' = [result EXCEPT ![c] = HTTPException(401, "no such user")]
             /\ pc' = [pc EXCEPT ![c] = "raised"]
             /\ UNCHANGED issued
        ELSE IF ~verify_password(login_req[c].password, user.password_hash)
        THEN /\ result' = [result EXCEPT
                             ![c] = HTTPException(401, "wrong email or password")]
             /\ pc' = [pc EXCEPT ![c] = "raised"]
             /\ UNCHANGED issued
        ELSE LET call == Issue([sub |-> user.email],
                               timedelta(ACCESS_TOKEN_EXPIRE_MINUTES)) IN
             /\ issued' = issued \cup {call}
             /\ result' = [result EXCEPT ![c] = [access_token |-> call.token,
                                                 token_type |-> "bearer"]]
             /\ pc' = [pc EXCEPT ![c] = "returned"]
    /\ UNCHANGED <<storeVars, op, before, chatVars, reg_req, hashed_pwd, requests, chunks,
                   login_req, token, payload, response, now, ticks, auth_requests>>

\* LoginGetUser with the user's _id, not the email, as the subject of the token
LoginGetUserSubjectIsId(c) ==
    /\ pc[c] = "login_get_user"
    /\ LET user == get_user(login_req[c].email) IN
        IF user = None \/ ~verify_password(login_req[c].password, user.password_hash)
        THEN /\ result' = [result EXCEPT
                             ![c] = HTTPException(401, "wrong email or password")]
             /\ pc' = [pc EXCEPT ![c] = "raised"]
             /\ UNCHANGED issued
        ELSE LET call == Issue([sub |-> Str(user._id)],
                               timedelta(ACCESS_TOKEN_EXPIRE_MINUTES)) IN
             /\ issued' = issued \cup {call}
             /\ result' = [result EXCEPT ![c] = [access_token |-> call.token,
                                                 token_type |-> "bearer"]]
             /\ pc' = [pc EXCEPT ![c] = "returned"]
    /\ UNCHANGED <<storeVars, op, before, chatVars, reg_req, hashed_pwd, requests, chunks,
                   login_req, token, payload, response, now, ticks, auth_requests>>

\* lines 71-78: one 401 for a missing user and for a password that does not
\* verify, otherwise a token for the user's email
LoginGetUser(c) ==
    /\ pc[c] = "login_get_user"
    /\ LET user == get_user(login_req[c].email) IN
        IF user = None \/ ~verify_password(login_req[c].password, user.password_hash)
        THEN /\ result' = [result EXCEPT
                             ![c] = HTTPException(401, "wrong email or password")]
             /\ pc' = [pc EXCEPT ![c] = "raised"]
             /\ UNCHANGED issued
        ELSE LET call == Issue([sub |-> user.email],
                               timedelta(ACCESS_TOKEN_EXPIRE_MINUTES)) IN
             /\ issued' = issued \cup {call}
             /\ result' = [result EXCEPT ![c] = [access_token |-> call.token,
                                                 token_type |-> "bearer"]]
             /\ pc' = [pc EXCEPT ![c] = "returned"]
    /\ UNCHANGED <<storeVars, op, before, chatVars, reg_req, hashed_pwd, requests, chunks,
                   login_req, token, payload, response, now, ticks, auth_requests>>

(***************************************************************************)
(* auth.py: get_current_user                                               *)
(***************************************************************************)
\* lines 85-89
credentials_exception ==
    [status_code |-> 401, detail |-> "could not validate credentials",
     headers |-> [WWW_Authenticate |-> "Bearer"]]

\* lines 90-96: the token does not decode, or it carries no sub
Undecodable(tok) ==
    LET decoded == jwt_decode(tok, SECRET_KEY) IN
    decoded = JWTError \/ "sub" \notin DOMAIN decoded

\* get_current_user(tok) called for operation o: the code up to the await of
\* get_user.  A token that does not decode or carries no sub raises at once.
GetCurrentUser(c, o, tok) ==
    /\ NewFrame(c, o, IF Undecodable(tok) THEN "raised" ELSE "identify_get_user")
    /\ token' = [token EXCEPT ![c] = tok]
    /\ payload' = [payload EXCEPT ![c] = jwt_decode(tok, SECRET_KEY)]
    /\ result' = [result EXCEPT
                    ![c] = IF Undecodable(tok) THEN credentials_exception ELSE None]
    /\ login_req' = [login_req EXCEPT ![c] = NoRequest]
    /\ response' = [response EXCEPT ![c] = None]

\* a call of get_current_user(credentials)
BeginIdentify(c, tok) ==
    /\ AuthNextCall(c)
    /\ auth_requests' = auth_requests + 1
    /\ GetCurrentUser(c, "get_current_user", tok)
    /\ chat_req' = [chat_req EXCEPT ![c] = [message |-> ""]]
    /\ UNCHANGED <<storeVars, requests, chunks, now, ticks, issued>>

\* IdentifyGetUser with an error of its own for a subject that has no user
IdentifyGetUserTellsCause(c) ==
    /\ pc[c] = "identify_get_user"
    /\ op[c] = "get_current_user"
    /\ LET user == get_user(payload[c].sub) IN
        IF user = None
        THEN /\ result' = [result EXCEPT ![c] = HTTPException(404, "user not found")]
             /\ pc' = [pc EXCEPT ![c] = "raised"]
        ELSE /\ result' = [result EXCEPT ![c] = user]
             /\ pc' = [pc EXCEPT ![c] = "returned"]
    /\ UNCHANGED <<storeVars, op, before, chatVars, reg_req, hashed_pwd, requests, chunks,
                   login_req, token, payload, response, now, ticks, issued, auth_requests>>

\* lines 97-100: the user of the token's subject is returned, a subject
\* without a user raises
IdentifyGetUser(c) ==
    /\ pc[c] = "identify_get_user"
    /\ op[c] = "get_current_user"
    /\ LET user == get_user(payload[c].sub) IN
        IF user = None
        THEN /\ result' = [result EXCEPT ![c] = credentials_exception]
             /\ pc' = [pc EXCEPT ![c] = "raised"]
        ELSE /\ result' = [result EXCEPT ![c] = user]
             /\ pc' = [pc EXCEPT ![c] = "returned"]
    /\ UNCHANGED <<storeVars, op, before, chatVars, reg_req, hashed_pwd, requests, chunks,
                   login_req, token, payload, response, now, ticks, issued, auth_requests>>

(***************************************************************************)
(* main.py: the route /chat/start                                          *)
(***************************************************************************)
\* chat.py lines 82-94: the response wraps the generator object of
\* chat_stream(current_user["email"], chat_req); no code of the generator has run
start_chat_stream(current_user, req) ==
    [body |-> [user_id |-> current_user.email, chat_req |-> req],
     media_type |-> "text/event-stream"]

\* await applied to an object that is not awaitable
TypeError == [error |-> "TypeError"]

\* a request to /chat/start: the dependency get_current_user is resolved first
BeginChatStart(c, tok, m) ==
    /\ AuthNextCall(c)
    /\ auth_requests' = auth_requests + 1
    /\ GetCurrentUser(c, "chat_start", tok)
    /\ chat_req' = [chat_req EXCEPT ![c] = [message |-> m]]
    /\ UNCHANGED <<storeVars, requests, chunks, now, ticks, issued>>

\* ChatStartGetUser with the handler entered whether or not the subject has a user
ChatStartUnguarded(c) ==
    /\ pc[c] = "identify_get_user"
    /\ op[c] = "chat_start"
    /\ response' = [response EXCEPT
                      ![c] = start_chat_stream([email |-> payload[c].sub], chat_req[c])]
    /\ result' = [result EXCEPT ![c] = TypeError]
    /\ pc' = [pc EXCEPT ![c] = "raised"]
    /\ UNCHANGED <<storeVars, op, before, chatVars, reg_req, hashed_pwd, requests, chunks,
                   login_req, token, payload, now, ticks, issued, auth_requests>>

\* auth.py lines 97-100, main.py line 73: a subject without a user raises and
\* the handler is not entered.  Otherwise the handler calls start_chat_stream,
\* which returns the response object, and awaits that object: start_chat_stream
\* is not a coroutine function and the response is not awaitable, so the await
\* raises TypeError
ChatStartGetUser(c) ==
    /\ pc[c] = "identify_get_user"
    /\ op[c] = "chat_start"
    /\ LET current_user == get_user(payload[c].sub) IN
        IF current_user = None
        THEN /\ result' = [result EXCEPT ![c] = credentials_exception]
             /\ UNCHANGED response
        ELSE /\ response' = [response EXCEPT
                               ![c] = start_chat_stream(current_user, chat_req[c])]
             /\ result' = [result EXCEPT ![c] = TypeError]
    /\ pc' = [pc EXCEPT ![c] = "raised"]
    /\ UNCHANGED <<storeVars, op, before, chatVars, reg_req, hashed_pwd, requests, chunks,
                   login_req, token, payload, now, ticks, issued, auth_requests>>

(***************************************************************************)
(* The program                                                             *)
(***************************************************************************)
Init ==
    /\ users = <<>>
    /\ sessions = <<>>
    /\ messages = <<>>
    /\ pc = [c \in Call |-> "idle"]
    /\ op = [c \in Call |-> "none"]
    /\ user_id = [c \in Call |-> ""]
    /\ chat_req = [c \in Call |-> [message |-> ""]]
    /\ safety = [c \in Call |-> None]
    /\ content_parts = [c \in Call |-> <<>>]
    /\ generated = [c \in Call |-> <<>>]
    /\ delivered = [c \in Call |-> <<>>]
    /\ stream = [c \in Call |-> "none"]
    /\ assistant_parts = [c \in Call |-> <<>>]
    /\ events = [c \in Call |-> <<>>]
    /\ inserted = [c \in Call |-> <<>>]
    /\ reg_req = [c \in Call |-> NoRequest]
    /\ hashed_pwd = [c \in Call |-> None]
    /\ result = [c \in Call |-> None]
    /\ before = [c \in Call |-> [users |-> <<>>, sessions |-> <<>>, messages |-> <<>>]]
    /\ requests = 0
    /\ chunks = 0
    /\ login_req = [c \in Call |-> NoRequest]
    /\ token = [c \in Call |-> None]
    /\ payload = [c \in Call |-> None]
    /\ response = [c \in Call |-> None]
    /\ now = 0
    /\ ticks = 0
    /\ issued = {}
    /\ auth_requests = 0

\* the calls in flight
Running == {c \in Call : pc[c] \notin Finished \cup {"idle"}}

\* a request arrives
Begin ==
    \E c \in Call :
        \/ \E u \in Emails, m \in Messages : BeginChat(c, u, m)
        \/ \E e \in Emails, p \in Passwords : BeginRegister(c, e, p)

\* a call in flight takes its next step
Step ==
    \E c \in Call :
        \/ ModerationReturns(c)
        \/ ModerationRaises(c)
        \/ ResumeBlocked(c)
        \/ GetSession(c)
        \/ CreateSession(c)
        \/ GetMessages(c)
        \/ SaveUserMessage(c)
        \/ GenerateContent(c)
        \/ NextChunk(c)
        \/ ResumeDelta(c)
        \/ StreamRaises(c)
        \/ ResumeError(c)
        \/ StreamCompletes(c)
        \/ SaveAssistantMessage(c)
        \/ ResumeDone(c)
        \/ Close(c)
        \/ RegisterGetUser(c)
        \/ RegisterCreateUser(c)

\* requests are served as they arrive: calls interleave at their awaits and yields
Next == Begin \/ Step

Spec == Init /\ [][Next]_vars

\* sequential calls: a request arrives only when no call is in flight
NextSeq == (Running = {} /\ Begin) \/ Step

SeqSpec == Init /\ [][NextSeq]_vars

\* logins served as they arrive, so that they overlap, against a store in which
\* users register between them
BeginLoginSpec ==
    \E c \in Call :
        \/ Running = {} /\ \E e \in Emails, p \in Passwords : BeginRegister(c, e, p)
        \/ \E e \in Emails, p \in LoginPasswords : BeginLogin(c, e, p)

NextLogin ==
    \/ BeginLoginSpec
    \/ \E c \in Call : RegisterGetUser(c) \/ RegisterCreateUser(c) \/ LoginGetUser(c)

LoginSpec == Init /\ [][NextLogin]_vars

\* register_user, authenticate_user and get_current_user called one after the
\* other while the clock advances
BeginIdentifySpec ==
    \E c \in Call :
        \/ \E e \in Emails, p \in Passwords : BeginRegister(c, e, p)
        \/ \E e \in Emails, p \in LoginPasswords : BeginLogin(c, e, p)
        \/ \E tok \in BearerTokens : BeginIdentify(c, tok)

NextIdentify ==
    \/ Running = {} /\ BeginIdentifySpec
    \/ \E c \in Call : \/ RegisterGetUser(c)
                       \/ RegisterCreateUser(c)
                       \/ LoginGetUser(c)
                       \/ IdentifyGetUser(c)
    \/ Tick

IdentifySpec == Init /\ [][NextIdentify]_vars

\* registrations, logins and requests to /chat/start, one after the other
BeginRouteSpec ==
    \E c \in Call :
        \/ \E e \in Emails, p \in Passwords : BeginRegister(c, e, p)
        \/ \E e \in Emails, p \in LoginPasswords : BeginLogin(c, e, p)
        \/ \E tok \in BearerTokens, m \in Messages : BeginChatStart(c, tok, m)

NextRoute ==
    \/ Running = {} /\ BeginRouteSpec
    \/ \E c \in Call : \/ RegisterGetUser(c)
                       \/ RegisterCreateUser(c)
                       \/ LoginGetUser(c)
                       \/ ChatStartGetUser(c)
    \/ Tick

RouteSpec == Init /\ [][NextRoute]_vars

\* registrations served as they arrive: the calls interleave at their awaits
NextRegisterRace ==
    \/ \E c \in Call, e \in Emails, p \in Passwords : BeginRegister(c, e, p)
    \/ \E c \in Call : RegisterGetUser(c) \/ RegisterCreateUser(c)

RegisterRaceSpec == Init /\ [][NextRegisterRace]_vars

\* two chat_stream invocations served as they arrive: the calls interleave at
\* their awaits and yields.  The classifier answers, the generation streams
\* deliver chunks and complete, and the consumers read every stream to its end.
NextChatRace ==
    \/ \E c \in Call, u \in Emails, m \in Messages :
          c <= 2 /\ requests < 2 /\ BeginChat(c, u, m)
    \/ \E c \in Call :
        \/ ModerationReturns(c)
        \/ ResumeBlocked(c)
        \/ GetSession(c)
        \/ CreateSession(c)
        \/ GetMessages(c)
        \/ SaveUserMessage(c)
        \/ GenerateContent(c)
        \/ NextChunk(c)
        \/ ResumeDelta(c)
        \/ StreamCompletes(c)
        \/ SaveAssistantMessage(c)
        \/ ResumeDone(c)

ChatRaceSpec == Init /\ [][NextChatRace]_vars

\* register, login, identify and chat requests, MaxRequests of them in all,
\* served as they arrive with at most two in flight: the calls interleave at
\* their awaits and yields, with every answer of the classifier, the
\* generation stream and the consumer
BeginCore ==
    \E c \in Call :
        /\ c <= 2
        /\ requests + auth_requests < MaxRequests
        /\ \/ \E e \in Emails, p \in Passwords : BeginRegister(c, e, p)
           \/ \E e \in Emails, p \in LoginPasswords : BeginLogin(c, e, p)
           \/ \E tok \in BearerTokens : BeginIdentify(c, tok)
           \/ \E u \in Emails, m \in Messages : BeginChat(c, u, m)

NextCore ==
    \/ BeginCore
    \/ Step
    \/ \E c \in Call : LoginGetUser(c) \/ IdentifyGetUser(c)

CoreSpec == Init /\ [][NextCore]_vars

\* the token service: tokens are made by create_access_token and presented to
\* get_current_user, one call after the other
BeginToken ==
    \/ \E data \in TokenData, expires_delta \in ExpiresDeltas :
          CreateAccessToken(data, expires_delta)
    \/ \E c \in Call, tok \in BearerTokens : BeginIdentify(c, tok)

NextToken ==
    \/ Running = {} /\ BeginToken
    \/ \E c \in Call : IdentifyGetUser(c)
    \/ Tick

TokenSpec == Init /\ [][NextToken]_vars

(***************************************************************************)
(* Vocabulary of the claims                                                *)
(***************************************************************************)
Chats == {c \in Call : op[c] = "chat"}
Registers == {c \in Call : op[c] = "register"}

Last(q) == q[Len(q)]
IsTerminal(frame) == frame.field \in {"error", "done"}

Flagged(c) == safety[c] # None /\ safety[c].flagged
Passed(c) == safety[c] # None /\ ~safety[c].flagged

\* the message documents inserted since call c began; in a sequential run they are c's own
Written(c) == SubSeq(messages, Len(before[c].messages) + 1, Len(messages))

UserTurn(c) == [role |-> "user", content |-> chat_req[c].message]
AssistantTurns(c) == SelectSeq(Written(c), LAMBDA d : d.message.role = "assistant")

\* the fragments: the chunks that carry text, in arrival order
Fragments(c) == SelectSeq(delivered[c], LAMBDA text : text # "")
Deltas(c) == [i \in 1..Len(Fragments(c)) |-> DeltaFrame(Fragments(c)[i])]

(***************************************************************************)
(* C1                                                                      *)
(***************************************************************************)
\* C1, as stated: every invocation of chat_stream that has ended has emitted zero or
\* more delta events followed by exactly one terminal (error or done) event.
C1_EveryInvocationEndsWithTerminal ==
    \A c \in Chats :
        pc[c] \in Finished =>
            /\ events[c] # <<>>
            /\ IsTerminal(Last(events[c]))
            /\ \A i \in 1..(Len(events[c]) - 1) : events[c][i].field = "delta"

\* C1, amended: at every moment the events emitted are delta events optionally
\* followed by one terminal event, which is the last event; an invocation that
\* returns has ended with exactly one terminal event; an invocation in which the
\* moderation call raises has emitted nothing; once a terminal event is emitted the
\* generator is suspended at that yield or has ended.
C1_EventStreamShape ==
    \A c \in Chats :
        /\ \A i \in 1..(Len(events[c]) - 1) : events[c][i].field = "delta"
        /\ pc[c] = "returned" => events[c] # <<>> /\ IsTerminal(Last(events[c]))
        /\ pc[c] = "raised" => events[c] = <<>>
        /\ (events[c] # <<>> /\ IsTerminal(Last(events[c]))) =>
               pc[c] \in {"yield_blocked", "yield_error", "yield_done"} \cup Finished

\* an invocation that returned after two delta events and the done event
C1_Witness ==
    \E c \in Chats :
        /\ pc[c] = "returned"
        /\ Len(events[c]) = 3
        /\ Last(events[c]) = DoneFrame

(***************************************************************************)
(* C2                                                                      *)
(***************************************************************************)
\* C2: in an invocation that moderation does not block, the generation capability is
\* invoked only after the user message is in the store, an assistant message is
\* written only after the generation call and the end of its stream, and the done
\* event is emitted only after the assistant message (if the turn has one) is written.
C2_TurnOrder ==
    \A c \in Chats :
        /\ generated[c] # <<>> =>
               /\ Passed(c)
               /\ Len(Written(c)) >= 1
               /\ Written(c)[1].message = UserTurn(c)
               /\ Written(c)[1]._id = inserted[c][1]
        /\ AssistantTurns(c) # <<>> =>
               /\ Len(generated[c]) = 1
               /\ stream[c] = "completed"
               /\ Written(c)[1].message = UserTurn(c)
        /\ (events[c] # <<>> /\ Last(events[c]) = DoneFrame) =>
               /\ Len(generated[c]) = 1
               /\ assistant_parts[c] # <<>> =>
                      /\ Len(Written(c)) = 2
                      /\ Written(c)[2].message.role = "assistant"

\* the done event of a turn with an assistant message has been emitted
C2_Witness ==
    \E c \in Chats :
        /\ pc[c] = "yield_done"
        /\ Len(Written(c)) = 2
        /\ Len(generated[c]) = 1

(***************************************************************************)
(* C3                                                                      *)
(***************************************************************************)
\* C3: when the moderation gate flags the message, chat_stream emits exactly one
\* error event and nothing else, the store is as it was when the invocation began
\* (no session record, no message) and the generation capability is not invoked.
C3_BlockedMessage ==
    \A c \in Chats :
        Flagged(c) =>
            /\ events[c] = <<BlockedFrame>>
            /\ Store = before[c]
            /\ generated[c] = <<>>
            /\ stream[c] = "none"
            /\ inserted[c] = <<>>

\* a flagged invocation has returned, in a store that holds an earlier turn
C3_Witness ==
    \E c \in Chats :
        /\ Flagged(c)
        /\ pc[c] = "returned"
        /\ messages # <<>>

HasRole(m, role) == "role" \in DOMAIN m /\ m.role = role
HasContent(m, content) == "content" \in DOMAIN m /\ m.content = content

\* the events and the writes of a turn whose stream completed after n >= 1 fragments
C5_EventsAndWrites(c) ==
    /\ events[c] = Deltas(c) \o <<DoneFrame>>
    /\ Len(Written(c)) = 2
    /\ Written(c)[1].message = UserTurn(c)
    /\ Written(c)[2].message = [role |-> "assistant", content |-> Join(Fragments(c))]

\* C5: when moderation passes and the stream yields fragments f1..fn (n >= 1) and
\* completes, chat_stream emits delta(f1), ..., delta(fn) and done, the store gains one
\* user message with the request text and one assistant message with content
\* f1 ++ ... ++ fn, and a retrieval of the session's messages returns a record with
\* role user carrying the request text and a record with role assistant.
C5_SuccessfulTurn ==
    \A c \in Chats :
        (pc[c] = "returned" /\ stream[c] = "completed" /\ Fragments(c) # <<>>) =>
            /\ C5_EventsAndWrites(c)
            /\ \A retrieved \in get_messages(session_id) :
                /\ \E i \in 1..Len(retrieved) :
                       HasRole(retrieved[i], "user")
                       /\ HasContent(retrieved[i], chat_req[c].message)
                /\ \E i \in 1..Len(retrieved) : HasRole(retrieved[i], "assistant")

(***************************************************************************)
(* C6                                                                      *)
(***************************************************************************)
\* C6: in every reachable state, after a stream error and after the consumer closed
\* the generator between two delta events included, an invocation has written at most
\* one assistant message, and only after its stream was drained to completion, with
\* the concatenation of all the fragments as content: never a proper prefix.
C6_NoPartialAssistantTurn ==
    \A c \in Chats :
        /\ Len(AssistantTurns(c)) <= 1
        /\ AssistantTurns(c) # <<>> =>
               /\ stream[c] = "completed"
               /\ AssistantTurns(c)[1].message.content = Join(Fragments(c))
        /\ stream[c] \in {"open", "raised"} =>
               \A i \in 1..Len(Written(c)) : Written(c)[i].message.role = "user"

\* the consumer closed the generator after a delta event, the stream still open
C6_Witness ==
    \E c \in Chats :
        /\ pc[c] = "closed"
        /\ stream[c] = "open"
        /\ assistant_parts[c] # <<>>
        /\ Len(Written(c)) = 1

(***************************************************************************)
(* C7                                                                      *)
(***************************************************************************)
\* a second successful turn has ended right after a first successful one
TwoSuccessfulTurns(c) ==
    /\ pc[c] = "returned"
    /\ events[c] # <<>> /\ Last(events[c]) = DoneFrame
    /\ Len(Written(c)) = 2
    /\ Len(before[c].messages) = 2
    /\ before[c].messages[2].message.role = "assistant"

\* C7: after two sequential successful chat turns, get_messages for the session
\* returns exactly [turn1-user, turn1-assistant, turn2-user, turn2-assistant], the
\* order in which the messages were stored.
C7_RetrievalInTurnOrder ==
    \A c \in Chats :
        TwoSuccessfulTurns(c) =>
            \A retrieved \in get_messages(session_id) :
                /\ retrieved = messages
                /\ [i \in 1..4 |-> retrieved[i].message.role]
                       = <<"user", "assistant", "user", "assistant">>

(***************************************************************************)
(* C8                                                                      *)
(***************************************************************************)
\* the messages persisted for the session before call c, as turns of a context
PriorTurns(c) ==
    LET prior == SelectSeq(before[c].messages, LAMBDA d : d.session_id = session_id)
    IN  [i \in 1..Len(prior) |->
            [role |-> prior[i].message.role,
             parts |-> <<[text |-> prior[i].message.content]>>]]

\* C8: the context handed to the generation capability is the sequence of all
\* messages previously persisted for the session followed by the new user message;
\* on a second sequential turn it contains the first turn's messages.
C8_ContextIsHistoryThenUser ==
    \A c \in Chats :
        generated[c] # <<>> =>
            generated[c][1] = PriorTurns(c)
                \o <<[role |-> "user", parts |-> <<[text |-> chat_req[c].message]>>]>>

(***************************************************************************)
(* C9                                                                      *)
(***************************************************************************)
SessionRecords == SelectSeq(sessions, LAMBDA d : d.session_id = session_id)

\* call c is past the session step of lines 35-37
SessionResolved(c) ==
    Passed(c) /\ pc[c] \notin {"get_session", "create_session"}

\* C9: after any sequence of sequential non-blocked invocations the store holds
\* exactly one session record for "default_session", created by the first invocation
\* with that invocation's user identity; later invocations create no further record.
C9_OneSessionRecord ==
    /\ Len(SessionRecords) <= 1
    /\ \A c \in Chats :
        SessionResolved(c) =>
            /\ Len(SessionRecords) = 1
            /\ before[c].sessions = <<>> => SessionRecords[1].user_id = user_id[c]
            /\ before[c].sessions # <<>> => sessions = before[c].sessions

(***************************************************************************)
(* C10                                                                     *)
(***************************************************************************)
Registered(coll, email) == \E i \in 1..Len(coll) : coll[i].email = email

\* C10: in sequential calls, register_user with an email that has no user record
\* stores exactly one new record for it and returns its id and the email;
\* with an email that has a record it fails with status 400 and leaves the users
\* collection unchanged; so each email has at most one user record.
C10_RegisterSequential ==
    /\ \A c \in Registers :
        pc[c] \in Finished =>
            IF Registered(before[c].users, reg_req[c].email)
            THEN /\ pc[c] = "raised"
                 /\ result[c].status_code = 400
                 /\ users = before[c].users
            ELSE /\ pc[c] = "returned"
                 /\ Len(users) = Len(before[c].users) + 1
                 /\ SubSeq(users, 1, Len(before[c].users)) = before[c].users
                 /\ Last(users).email = reg_req[c].email
                 /\ verify_password(reg_req[c].password, Last(users).password_hash)
                 /\ result[c] = [user_id |-> Str(Last(users)._id),
                                 email |-> reg_req[c].email]
    /\ \A i, j \in 1..Len(users) : users[i].email = users[j].email => i = j

\* a registration was refused because the email already had a record
C10_Witness ==
    \E c \in Registers :
        /\ pc[c] = "raised"
        /\ Len(users) = 1
        /\ users[1].email = reg_req[c].email

(***************************************************************************)
(* Vocabulary of the auth claims                                           *)
(***************************************************************************)
Logins == {c \in Call : op[c] = "authenticate_user"}
Identifies == {c \in Call : op[c] = "get_current_user"}
ChatStarts == {c \in Call : op[c] = "chat_start"}

\* the tokens create_access_token has made
IssuedTokens == {i.token : i \in issued}

\* the stored user of login_req's email exists and its hash verifies the password
LoginAccepts(c) ==
    LET user == get_user(login_req[c].email) IN
    user # None /\ verify_password(login_req[c].password, user.password_hash)

(***************************************************************************)
(* C11                                                                     *)
(***************************************************************************)
\* the one error of a failed login
C11_LoginError == HTTPException(401, "wrong email or password")

C11_Outcome ==
    \A c \in Logins :
        pc[c] \in Finished =>
            /\ pc[c] \in {"raised", "returned"}
            /\ ~LoginAccepts(c) => pc[c] = "raised"
            /\ pc[c] = "raised" => result[c] = C11_LoginError
            /\ pc[c] = "returned" =>
                /\ LoginAccepts(c)
                /\ result[c].token_type = "bearer"
                /\ result[c].access_token \in IssuedTokens

C11_FailureIssuesNothing ==
    \A c \in Call :
        pc[c] = "login_get_user" /\ pc'[c] = "raised" => issued' = issued

\* C11: a login for an email without a user and a login with a password that
\* does not verify end with the same error value (status 401, one detail), so
\* the two cannot be told apart, and a failing login makes no token; a login
\* returns a bearer token only when the stored hash verifies the password.
C11_LoginFailuresIndistinguishable ==
    []C11_Outcome /\ [][C11_FailureIssuesNothing]_vars

\* two failed logins side by side: one for an email that has no user, one for
\* a registered email with a password that does not verify
C11_Witness ==
    \E c, d \in Logins :
        /\ c # d
        /\ pc[c] = "raised" /\ pc[d] = "raised"
        /\ get_user(login_req[c].email) = None
        /\ Registered(before[d].users, login_req[d].email)
        /\ ~LoginAccepts(d)
        /\ result[c] = result[d]

(***************************************************************************)
(* C12                                                                     *)
(***************************************************************************)
\* what is wrong with a credential whatever the time: it is no token, it is
\* signed with another key, or it carries no subject
Malformed(tok) == "claims" \notin DOMAIN tok
BadSignature(tok) == ~Malformed(tok) /\ tok.key # SECRET_KEY
NoSubject(tok) == ~Malformed(tok) /\ "sub" \notin DOMAIN tok.claims
\* the token is past its exp claim
Expired(tok) == ~Malformed(tok) /\ tok.claims.exp < now

\* call c is a call of get_current_user that begins in this step
IdentifyBegins(c) ==
    /\ AuthNextCall(c)
    /\ auth_requests' = auth_requests + 1
    /\ issued' = issued
    /\ op'[c] = "get_current_user"

C12_Outcome ==
    \A c \in Identifies :
        pc[c] \in Finished =>
            /\ pc[c] \in {"raised", "returned"}
            /\ pc[c] = "raised" => result[c] = credentials_exception
            /\ \/ Malformed(token[c])
               \/ BadSignature(token[c])
               \/ NoSubject(token[c])
               \/ payload[c] = JWTError
               \/ get_user(token[c].claims.sub) = None
               => pc[c] = "raised"
            /\ pc[c] = "returned" =>
                /\ payload[c] = token[c].claims
                /\ result[c] = get_user(token[c].claims.sub)
                /\ result[c].email = token[c].claims.sub

C12_ExpiredRaises ==
    \A c \in Call :
        IdentifyBegins(c) /\ Expired(token'[c]) =>
            /\ pc'[c] = "raised"
            /\ result'[c] = credentials_exception
            /\ payload'[c] = JWTError

\* C12: every failure of get_current_user (a credential that is no token, a
\* token signed with another key, an expired token, a token without sub, a
\* token whose sub has no user) ends with the same 401 error value, and the
\* stored user of the token's sub is returned only for a token that decodes,
\* is not expired and names a stored user.
C12_IdentifyFailuresCollapse ==
    []C12_Outcome /\ [][C12_ExpiredRaises]_vars

\* a token handed out by a login is presented after its expiry and rejected
C12_Witness ==
    \E c \in Identifies :
        /\ pc[c] = "raised"
        /\ token[c] \in IssuedTokens
        /\ Registered(users, token[c].claims.sub)
        /\ Expired(token[c])
        /\ payload[c] = JWTError
        /\ result[c] = credentials_exception

(***************************************************************************)
(* C13                                                                     *)
(***************************************************************************)
\* the calls of create_access_token that were given a subject
SubjectIssues == {i \in issued : "sub" \in DOMAIN i.data}

C13_IssueThenVerify ==
    \A c \in Call : \A i \in SubjectIssues :
        IdentifyBegins(c) /\ token'[c] = i.token =>
            /\ now < i.token.claims.exp =>
                /\ pc'[c] = "identify_get_user"
                /\ payload'[c].sub = i.data.sub
            /\ now > i.token.claims.exp =>
                /\ pc'[c] = "raised"
                /\ result'[c] = credentials_exception

\* C13: a token made by create_access_token({sub: s}, ttl), for every s and every
\* ttl (none given, zero, non-zero), decodes to the subject s whenever it is
\* presented to get_current_user strictly before the expiry it carries, and is
\* rejected whenever it is presented after that expiry.
C13_TokenRoundTrip == [][C13_IssueThenVerify]_vars

\* a token is presented some time after it was made and before its expiry, and
\* decodes to the subject it was made for
C13_Witness ==
    \E c \in Identifies : \E i \in SubjectIssues :
        /\ token[c] = i.token
        /\ i.at < now /\ now < i.token.claims.exp
        /\ pc[c] = "identify_get_user"
        /\ payload[c].sub = i.data.sub

(***************************************************************************)
(* C14                                                                     *)
(***************************************************************************)
\* the bearer token of call c did not identify a user: it did not decode, it
\* carries no subject, or its subject has no user
FailsIdentification(c) ==
    \/ Malformed(token[c])
    \/ BadSignature(token[c])
    \/ NoSubject(token[c])
    \/ payload[c] = JWTError
    \/ get_user(token[c].claims.sub) = None

\* nothing of the chat pipeline has happened in call c
NoPipelineStep(c) ==
    /\ response[c] = None
    /\ safety[c] = None
    /\ generated[c] = <<>>
    /\ events[c] = <<>>
    /\ inserted[c] = <<>>
    /\ Store = before[c]

\* C14: a request to /chat/start whose bearer token fails identification ends
\* with the 401 of get_current_user; the handler is not entered, so no response
\* stream is built and no step of the chat pipeline happens (no moderation
\* call, no session or message write, no generation call, no event).
C14_AuthGatesChat ==
    \A c \in ChatStarts :
        /\ pc[c] \in Finished /\ FailsIdentification(c) =>
            /\ pc[c] = "raised"
            /\ result[c] = credentials_exception
            /\ NoPipelineStep(c)
        /\ pc[c] \notin Finished => NoPipelineStep(c)

\* a request with a token that decodes and names a subject without a user is
\* rejected after the lookup
C14_Witness ==
    \E c \in ChatStarts :
        /\ pc[c] = "raised"
        /\ ~Malformed(token[c]) /\ ~NoSubject(token[c])
        /\ payload[c] = token[c].claims
        /\ get_user(token[c].claims.sub) = None
        /\ users # <<>>
        /\ result[c] = credentials_exception
        /\ NoPipelineStep(c)

(***************************************************************************)
(* C15                                                                     *)
(***************************************************************************)
\* C15: a request to /chat/start with a token that identifies a user returns
\* the response that streams chat_stream(user's email, chat_req), and the
\* handler ends without an error.
C15_ChatStartReturnsStream ==
    \A c \in ChatStarts :
        pc[c] \in Finished /\ ~FailsIdentification(c) =>
            /\ pc[c] = "returned"
            /\ result[c] = response[c]
            /\ response[c] = start_chat_stream(get_user(token[c].claims.sub), chat_req[c])

(***************************************************************************)
(* C16                                                                     *)
(***************************************************************************)
\* register_user(email, password) has succeeded: a user of that email is stored
\* with a hash of that password
RegisteredWith(email, password) ==
    \E i \in 1..Len(users) :
        /\ users[i].email = email
        /\ verify_password(password, users[i].password_hash)

\* the calls of create_access_token made by logins
LoginIssues == {i \in issued : i.expires_delta = timedelta(ACCESS_TOKEN_EXPIRE_MINUTES)}

C16_LoginAfterRegister ==
    \A c \in Logins :
        pc[c] \in Finished /\ RegisteredWith(login_req[c].email, login_req[c].password) =>
            /\ pc[c] = "returned"
            /\ result[c].token_type = "bearer"
            /\ result[c].access_token \in {i.token : i \in LoginIssues}
            /\ result[c].access_token.claims.sub = login_req[c].email

C16_IdentifyAfterLogin ==
    \A c \in Identifies :
        pc[c] \in Finished /\ token[c] \in {i.token : i \in LoginIssues}
                           /\ payload[c] # JWTError =>
            /\ pc[c] = "returned"
            /\ result[c].email = token[c].claims.sub
            /\ \E i \in 1..Len(users) : users[i] = result[c]

C16_UnexpiredDecodes ==
    \A c \in Call : \A i \in LoginIssues :
        IdentifyBegins(c) /\ token'[c] = i.token /\ now < i.token.claims.exp =>
            /\ pc'[c] = "identify_get_user"
            /\ payload'[c] = i.token.claims

\* C16: with the calls made one after the other, once register_user(e, p) has
\* succeeded authenticate_user(e, p) returns a token of type bearer whose
\* subject is e, and get_current_user given a token of a login before its
\* expiry returns the stored user whose email is the token's subject.
C16_RegisterLoginIdentify ==
    [](C16_LoginAfterRegister /\ C16_IdentifyAfterLogin) /\ [][C16_UnexpiredDecodes]_vars

\* after one registration and one login the token of the login is presented
\* before its expiry and the registered user comes back
C16_Witness ==
    \E c \in Identifies : \E i \in LoginIssues :
        /\ pc[c] = "returned"
        /\ token[c] = i.token
        /\ now < i.token.claims.exp
        /\ auth_requests = 2
        /\ requests = 1
        /\ result[c] = users[1]
        /\ result[c].email = i.data.sub

(***************************************************************************)
(* C17                                                                     *)
(***************************************************************************)
\* the user documents of an email
UsersOf(email) == {i \in 1..Len(users) : users[i].email = email}

\* C17: the existence check and the insert of register_user are separate steps
\* and nothing between them or in the store rejects a duplicate: a call that
\* has passed its check never raises, every call that returned has inserted a
\* record of its own, and so two overlapping calls for one email whose checks
\* both saw no user both succeed and leave two records of that email.
C17_CheckThenInsertRace ==
    /\ \A c \in Registers :
        /\ pc[c] = "raised" => hashed_pwd[c] = None
        /\ pc[c] = "returned" =>
            \E i \in UsersOf(reg_req[c].email) :
                /\ Str(users[i]._id) = result[c].user_id
                /\ users[i].password_hash = hashed_pwd[c]
    /\ \A c, d \in Registers :
        c # d /\ pc[c] = "returned" /\ pc[d] = "returned" =>
            result[c].user_id # result[d].user_id

\* two calls for the same email began on the same store without a user of that
\* email, both returned, and the collection holds two records of the email
C17_Witness ==
    \E c, d \in Registers :
        /\ c # d
        /\ reg_req[c].email = reg_req[d].email
        /\ ~Registered(before[c].users, reg_req[c].email)
        /\ before[d] = before[c]
        /\ pc[c] = "returned" /\ pc[d] = "returned"
        /\ "user_id" \in DOMAIN result[c] /\ "user_id" \in DOMAIN result[d]
        /\ Cardinality(UsersOf(reg_req[c].email)) = 2

(***************************************************************************)
(* C18                                                                     *)
(***************************************************************************)
\* position in db.messages of the document with the given _id
Pos(id) == CHOOSE i \in 1..Len(messages) : messages[i]._id = id

\* call c is past the write of its user message
PastUserWrite(c) ==
    pc[c] \in {"generate_content", "next_chunk", "yield_delta", "yield_error",
               "save_assistant_message", "yield_done"}

\* C18: in every interleaving of two chat_stream invocations each invocation
\* inserts its own user message before its own assistant message, and inserts
\* nothing else; the writes of the two invocations may alternate, and an
\* invocation may read the history before the other, already begun, has
\* written its user message.
C18_OwnTurnOrdered ==
    \A c \in Chats :
        /\ Len(inserted[c]) <= 2
        /\ PastUserWrite(c) => Len(inserted[c]) >= 1
        /\ Len(inserted[c]) >= 1 =>
            messages[Pos(inserted[c][1])].message = UserTurn(c)
        /\ Len(inserted[c]) = 2 =>
            /\ Pos(inserted[c][1]) < Pos(inserted[c][2])
            /\ messages[Pos(inserted[c][2])].message =
                   [role |-> "assistant", content |-> Join(assistant_parts[c])]

\* both invocations began on the empty store and have returned, and the log is
\* user of one, user of the other, assistant of the one, assistant of the other
C18_Witness ==
    \E c, d \in Chats :
        /\ c # d
        /\ pc[c] = "returned" /\ pc[d] = "returned"
        /\ before[c].messages = <<>> /\ before[d].messages = <<>>
        /\ inserted[c] = <<ObjectId(1), ObjectId(3)>>
        /\ inserted[d] = <<ObjectId(2), ObjectId(4)>>
        /\ [i \in 1..4 |-> messages[i].message.role] =
               <<"user", "user", "assistant", "assistant">>

\* both invocations have read the history and neither has written its user
\* message: the later of the two reads missed the turn the other had begun
C18_StaleRead ==
    \E c, d \in Chats :
        /\ c # d
        /\ pc[c] = "save_user_message" /\ pc[d] = "save_user_message"
        /\ messages = <<>>

(***************************************************************************)
(* C19                                                                     *)
(***************************************************************************)
\* the collection has only grown: every document it held is still there, at
\* its position and unchanged
Extends(old, new) ==
    /\ Len(old) <= Len(new)
    /\ \A i \in 1..Len(old) : new[i] = old[i]

C19_AppendOnly ==
    /\ Extends(users, users')
    /\ Extends(sessions, sessions')
    /\ Extends(messages, messages')

\* a step of a call of authenticate_user or get_current_user, its first included
C19_AuthStepsKeepStore ==
    \A c \in Call :
        /\ op'[c] \in {"authenticate_user", "get_current_user"}
        /\ <<pc[c], op[c], login_req[c], token[c]>> # <<pc'[c], op'[c], login_req'[c], token'[c]>>
        => UNCHANGED storeVars

\* the message documents call c has inserted, in order
InsertedBy(c) == [k \in 1..Len(inserted[c]) |-> messages[Pos(inserted[c][k])].message]

C19_ChatWrites ==
    \A c \in Chats :
        /\ Len(inserted[c]) <= 2
        /\ Len(inserted[c]) >= 1 => InsertedBy(c)[1] = UserTurn(c)
        /\ Len(inserted[c]) = 2 => InsertedBy(c)[2].role = "assistant"
        /\ ~Passed(c) => inserted[c] = <<>>
        /\ Passed(c) /\ pc[c] \in Finished => Len(inserted[c]) >= 1

\* C19: in every interleaving of register, login, identify and chat calls each
\* step leaves every stored user, session and message document in place and
\* unchanged; the steps of authenticate_user and get_current_user change
\* nothing in the store; and a chat invocation inserts nothing unless it passed
\* moderation, and then exactly one user message and at most one assistant
\* message.
C19_StoreOnlyGrows ==
    /\ [][C19_AppendOnly /\ C19_AuthStepsKeepStore]_vars
    /\ []C19_ChatWrites

\* a chat that passed moderation has ended with its two messages stored while
\* a login went on next to it, on top of what was stored when the chat began
C19_Witness ==
    \E c \in Chats : \E d \in Logins :
        /\ pc[c] \in Finished /\ Passed(c)
        /\ Len(inserted[c]) = 2
        /\ pc[d] \in Finished
        /\ Len(before[c].messages) + 2 <= Len(messages)
        /\ Extends(before[c].messages, messages)

(***************************************************************************)
(* C20                                                                     *)
(***************************************************************************)
\* the expiry the claim gives a call of create_access_token
C20_Expected(i) ==
    IF i.expires_delta = None
    THEN i.at + ACCESS_TOKEN_EXPIRE_MINUTES
    ELSE i.at + i.expires_delta.minutes

\* C20: every token create_access_token has made carries the expiry now + ttl
\* when a ttl was supplied, a ttl of zero included, and now + 30 minutes only
\* when none was supplied.
C20_ExpiryIsNowPlusTtl ==
    \A i \in issued : i.token.claims.exp = C20_Expected(i)

\* the same for the calls that were given no ttl or a ttl other than zero
C20_ExceptZero ==
    \A i \in issued :
        i.expires_delta # timedelta(0) => i.token.claims.exp = C20_Expected(i)

(***************************************************************************)
(* C21                                                                     *)
(***************************************************************************)
\* the stream of c was drained to completion without one chunk that carries text
CompletedEmpty(c) == Passed(c) /\ stream[c] = "completed" /\ Fragments(c) = <<>>

\* the delta events among the events of c, in the order of emission
DeltaEvents(c) == SelectSeq(events[c], LAMBDA frame : frame.field = "delta")

ModerationRaised(c) == pc[c] = "raised" /\ safety[c] = None

\* C22: when the moderation call raises during chat_stream, the invocation ends
\* there with the store as it was when it began (no session record created, no
\* message persisted), the generation capability not invoked for the request and
\* no stream opened.
C22_ModerationFailureFailsClosed ==
    \A c \in Chats :
        ModerationRaised(c) =>
            /\ sessions = before[c].sessions
            /\ messages = before[c].messages
            /\ Store = before[c]
            /\ inserted[c] = <<>>
            /\ generated[c] = <<>>
            /\ content_parts[c] = <<>>
            /\ stream[c] = "none"
            /\ delivered[c] = <<>>
            /\ pc[c] \in Finished

\* the classifier raised in an invocation made on top of an earlier turn
C22_Witness ==
    \E c \in Chats :
        /\ ModerationRaised(c)
        /\ sessions # <<>>
        /\ messages # <<>>

====
